---------------------------- MODULE Spec2Model ----------------------------
(***************************************************************************)
(* DataMind-Pro: the cleaning pipeline (data_preprocessor.py), the         *)
(* feature/split builder and forecaster (model_trainer.py), the two        *)
(* drivers (main.py, app.py analyze) and the HTTP upload bookkeeping       *)
(* (app.py).                                                               *)
(*                                                                         *)
(* Representation.  A DataFrame is [cols, rows, unit]: the set of column   *)
(* names, the sequence of rows and the common denominator of the sales     *)
(* amounts: a stored amount n stands for the number n / unit, so that the  *)
(* group means of the imputation stage are exact.  A missing amount (NaN)  *)
(* is the empty sequence <<>>, a present amount n is <<n>>.  A date is     *)
(* [fmt, day]: fmt "mdY" is a string that matches %m/%d/%Y, "text" any     *)
(* other string, "ts" a parsed Timestamp, "NaT" a missing one.  The        *)
(* column names are transliterated: "date" is the date column,             *)
(* "product_id" the product ID column, "sales" the sales amount column,    *)
(* "region" the region column; the Chinese region labels of                *)
(* region_mapping are written in pinyin ("HuaBei" ...).                    *)
(***************************************************************************)
EXTENDS Integers, Sequences, FiniteSets, TLC

\* ------------------------------------------------------------ bounds
\* Rows of a dataset of the mixed family (dates, products, amounts vary).
MaxRows == 3
\* Rows of a dataset of the outlier family (only the amounts vary).
MaxIqrRows == 5
\* Rows of a dataset of the split and category families.
MaxPipeRows == 5
\* Length of a code list handed to predict_nov_sales on its own.
MaxCodes == 6
\* Files uploaded while the server runs.
MaxUploads == 2
\* Seconds that pass while the server runs.
MaxClock == 1

\* ------------------------------------------------------------ helpers
Range(s) == {s[i] : i \in 1..Len(s)}

RECURSIVE SelectRows(_, _)
\* The rows of s that are in the set keep, in their order (boolean mask).
SelectRows(s, keep) ==
    IF s = <<>> THEN <<>>
    ELSE IF Head(s) \in keep THEN <<Head(s)>> \o SelectRows(Tail(s), keep)
         ELSE SelectRows(Tail(s), keep)

RECURSIVE GCD(_, _)
GCD(a, b) == IF b = 0 THEN a ELSE GCD(b, a % b)

LCM(a, b) == (a * b) \div GCD(a, b)

RECURSIVE LCMSet(_)
LCMSet(S) ==
    IF S = {} THEN 1
    ELSE LET x == CHOOSE y \in S : TRUE IN LCM(x, LCMSet(S \ {x}))

RECURSIVE SumSeq(_)
SumSeq(s) == IF s = <<>> THEN 0 ELSE Head(s) + SumSeq(Tail(s))

AllCols == {"date", "product_id", "sales", "region"}

NaN == <<>>
isnull(v) == v = NaN

\* ------------------------------------------------------------ cleaning
\* data_preprocessor.py, stage 1: the fixed lookup table; a label outside
\* the table passes through unchanged (dict.get(x, x)).
region_mapping(x) ==
    CASE x = "HuaBei"  -> "North"
      [] x = "HuaDong" -> "East"
      [] x = "HuaNan"  -> "South"
      [] x = "XiBei"   -> "Northwest"
      [] x = "XiNan"   -> "Southwest"
      [] x = "DongBei" -> "Northeast"
      [] x = "ZhongBu" -> "Central"
      [] OTHER         -> x

NormalizeRegions(df) ==
    IF "region" \in df.cols
    THEN [df EXCEPT !.rows =
            [i \in 1..Len(df.rows) |->
                [df.rows[i] EXCEPT !.region = region_mapping(@)]]]
    ELSE df

\* The present amounts of a column, in row order (quantile skips NaN).
RECURSIVE SalesOf(_)
SalesOf(rows) ==
    IF rows = <<>> THEN <<>>
    ELSE IF isnull(Head(rows).sales) THEN SalesOf(Tail(rows))
         ELSE <<Head(rows).sales[1]>> \o SalesOf(Tail(rows))

\* The present amounts of the rows of product p, in row order.
RECURSIVE GroupValues(_, _)
GroupValues(rows, p) ==
    IF rows = <<>> THEN <<>>
    ELSE IF Head(rows).product_id = p /\ ~isnull(Head(rows).sales)
         THEN <<Head(rows).sales[1]>> \o GroupValues(Tail(rows), p)
         ELSE GroupValues(Tail(rows), p)

HasMissing(df) == \E i \in 1..Len(df.rows) : isnull(df.rows[i].sales)

\* The group sizes whose mean is used by some fill.
FillCounts(rows) ==
    {Len(GroupValues(rows, rows[i].product_id)) :
        i \in {j \in 1..Len(rows) : isnull(rows[j].sales)}} \ {0}

\* Mutant of FillMissing: one mean over the whole column, not one per product
\* (fillna(df.sales.mean())).
FillMissing_globalMean(df) ==
    LET all == SalesOf(df.rows)
        L   == IF all = <<>> THEN 1 ELSE Len(all)
    IN  [df EXCEPT !.unit = @ * L,
                   !.rows = [i \in 1..Len(df.rows) |->
                       [df.rows[i] EXCEPT !.sales =
                           IF isnull(@)
                           THEN (IF all = <<>> THEN NaN ELSE <<SumSeq(all)>>)
                           ELSE <<@[1] * L>>]]]

\* groupby(product).transform(lambda x: x.fillna(x.mean())): the mean of a
\* group is the sum of its present amounts over their number, computed once
\* per group from the column as it stands; the mean of a group with no
\* present amount is NaN and fills nothing.
FillMissing(df) ==
    LET L == LCMSet(FillCounts(df.rows))
        fill(r) ==
            LET g == GroupValues(df.rows, r.product_id)
            IN  IF isnull(r.sales)
                THEN (IF g = <<>> THEN NaN
                      ELSE <<SumSeq(g) * (L \div Len(g))>>)
                ELSE <<r.sales[1] * L>>
    IN  [df EXCEPT !.unit = @ * L,
                   !.rows = [i \in 1..Len(df.rows) |->
                               [df.rows[i] EXCEPT !.sales = fill(df.rows[i])]]]

Impute(df) ==
    IF "sales" \in df.cols /\ HasMissing(df) THEN FillMissing(df) ELSE df

\* Line 40: groupby("product_id") raises KeyError when the frame has a missing
\* amount to fill and no product column.
ImputeFails(df) ==
    "sales" \in df.cols /\ HasMissing(df) /\ "product_id" \notin df.cols

\* Mutant of to_datetime: only strings are parsed, an already parsed
\* Timestamp is coerced to NaT.
to_datetime_stringsOnly(d) ==
    IF d.fmt = "mdY" THEN [fmt |-> "ts", day |-> d.day]
    ELSE [fmt |-> "NaT", day |-> 0]

\* pd.to_datetime(format="%m/%d/%Y", errors="coerce"): a matching string
\* parses, a Timestamp stays, anything else becomes NaT.
to_datetime(d) ==
    CASE d.fmt = "mdY" -> [fmt |-> "ts", day |-> d.day]
      [] d.fmt = "ts"  -> d
      [] OTHER         -> [fmt |-> "NaT", day |-> 0]

DateFilter(df) ==
    IF "date" \in df.cols
    THEN LET parsed == [i \in 1..Len(df.rows) |->
                          [df.rows[i] EXCEPT !.date = to_datetime(@)]]
         IN  [df EXCEPT !.rows =
                SelectRows(parsed, {r \in Range(parsed) : r.date.fmt # "NaT"})]
    ELSE df

\* Mutant of DropNegative: the filtered frame is not assigned back.
DropNegative_none(df) == df

\* df[df.sales >= 0] (line 55): a comparison with NaN is False.
DropNegative(df) ==
    [df EXCEPT !.rows =
        SelectRows(df.rows, {r \in Range(df.rows) :
                                ~isnull(r.sales) /\ r.sales[1] >= 0})]

\* The i-th smallest element of a non-empty sequence.
KthSmallest(v, i) ==
    CHOOSE x \in Range(v) :
        /\ Cardinality({j \in 1..Len(v) : v[j] < x}) < i
        /\ i <= Cardinality({j \in 1..Len(v) : v[j] <= x})

\* Four times Series.quantile(k/4) with linear interpolation: position
\* (n-1)*k/4 in the sorted values.  NaN (<<>>) on an empty series,
\* otherwise <<4q>>.
quantile4(v, k) ==
    IF v = <<>> THEN NaN
    ELSE LET pos4 == (Len(v) - 1) * k
             lo   == pos4 \div 4
             r    == pos4 % 4
             a    == KthSmallest(v, lo + 1)
             b    == IF r = 0 THEN a ELSE KthSmallest(v, lo + 2)
         IN  <<4 * a + r * (b - a)>>

\* 8 * (Q1 - 1.5 * IQR) and 8 * (Q3 + 1.5 * IQR), from 4*Q1 and 4*Q3.
LowerBound8(q1, q3) == 2 * q1 - 3 * (q3 - q1)
UpperBound8(q1, q3) == 2 * q3 + 3 * (q3 - q1)

\* The mask of lines 61-64; every comparison with NaN is False.
InBounds(x, q1, q3) ==
    /\ ~isnull(x) /\ ~isnull(q1) /\ ~isnull(q3)
    /\ 8 * x[1] >= LowerBound8(q1[1], q3[1])
    /\ 8 * x[1] <= UpperBound8(q1[1], q3[1])

IqrMask(df, q1, q3) ==
    [df EXCEPT !.rows =
        SelectRows(df.rows, {r \in Range(df.rows) : InBounds(r.sales, q1, q3)})]

\* Mutant of stage_order: the quartiles are taken before the negative
\* amounts are removed.
stage_order_quartilesFirst ==
    <<"normalize", "impute", "date", "quartiles", "negative", "iqr">>

\* Mutant of stage_order: the dates are standardized, and the rows with an
\* invalid date dropped, before the missing amounts are filled.
stage_order_dateFirst ==
    <<"normalize", "date", "impute", "negative", "quartiles", "iqr">>

\* The statements of preprocess_data in program order: region conversion
\* (lines 32-35), imputation (38-43), date standardization (46-50), removal
\* of negative amounts (54-55), the quartiles (57-59), the IQR mask (61-64).
stage_order == <<"normalize", "impute", "date", "negative", "quartiles", "iqr">>

\* The locals of preprocess_data: df_clean, Q1, Q3, and the column the
\* quartiles were taken from.
Locals(df) == [df |-> df, Q1 |-> NaN, Q3 |-> NaN, quant_in |-> <<>>]

\* One statement group of preprocess_data applied to its locals.
Stage(name, c) ==
    CASE name = "normalize" -> [c EXCEPT !.df = NormalizeRegions(c.df)]
      [] name = "impute"    -> [c EXCEPT !.df = Impute(c.df)]
      [] name = "date"      -> [c EXCEPT !.df = DateFilter(c.df)]
      [] name = "negative"  ->
            IF "sales" \in c.df.cols
            THEN [c EXCEPT !.df = DropNegative(c.df)] ELSE c
      [] name = "quartiles" ->
            IF "sales" \in c.df.cols
            THEN [c EXCEPT !.quant_in = SalesOf(c.df.rows),
                           !.Q1 = quantile4(SalesOf(c.df.rows), 1),
                           !.Q3 = quantile4(SalesOf(c.df.rows), 3)]
            ELSE c
      [] name = "iqr"       ->
            IF "sales" \in c.df.cols
            THEN [c EXCEPT !.df = IqrMask(c.df, c.Q1, c.Q3)] ELSE c

RECURSIVE RunStages(_, _)
RunStages(order, c) ==
    IF order = <<>> THEN c ELSE RunStages(Tail(order), Stage(Head(order), c))

\* preprocess_data: df.copy(), then the stages in program order.
preprocess_data(df) == RunStages(stage_order, Locals(df)).df

\* preprocess_data raises, and returns nothing, when its imputation does
\* (the stage before it changes neither the columns nor the amounts).
PreprocessFails(df) == ImputeFails(NormalizeRegions(df))

\* ------------------------------------------------------------ ingestion
\* data_loader.py load_data: FileNotFoundError when the path does not exist,
\* ValueError for an extension other than .csv/.xlsx/.xls, else the frame.
LoadFails(f) == ~f.exists \/ f.ext \notin {".csv", ".xlsx", ".xls"}
LoadError(f) == IF ~f.exists THEN "FileNotFoundError" ELSE "ValueError"
load_data(f) == f.data

\* ------------------------------------------------------------ modelling
RECURSIVE Uniques(_)
\* pd.factorize(...)[1]: the distinct values in order of first appearance.
Uniques(v) ==
    IF v = <<>> THEN <<>>
    ELSE LET u == Uniques(SubSeq(v, 1, Len(v) - 1))
         IN  IF v[Len(v)] \in Range(u) THEN u ELSE Append(u, v[Len(v)])

\* pd.factorize(...)[0]: the code of a value is its position in the uniques,
\* counted from 0.
CodeOf(u, x) == (CHOOSE i \in 1..Len(u) : u[i] = x) - 1

RegionCol(df)  == [i \in 1..Len(df.rows) |-> df.rows[i].region]
ProductCol(df) == [i \in 1..Len(df.rows) |-> df.rows[i].product_id]

\* The category-to-code assignments of a frame (model_trainer.py 26-27,
\* main.py 47-50, app.py 100-101).
factorize(df) ==
    [region |-> Uniques(RegionCol(df)), product |-> Uniques(ProductCol(df))]

\* Line 30: train_mask = day <= 20; line 31: test_mask = day > 20.
SplitDay == 20
\* Mutant of train_mask: the boundary day is left out of the training set.
train_mask_strict(day) == day < SplitDay
train_mask(day) == day <= SplitDay
test_mask(day)  == day > SplitDay

\* Lines 25-27 and 34: the feature row of a record.
FeatureRow(r, enc) ==
    [day          |-> r.date.day,
     region_code  |-> CodeOf(enc.region, r.region),
     product_code |-> CodeOf(enc.product, r.product_id)]

\* prepare_model_data (lines 12-44): features and labels of the rows under
\* each mask, and the encodings that produced the codes.
prepare_model_data(df) ==
    LET enc   == factorize(df)
        train == SelectRows(df.rows, {r \in Range(df.rows) : train_mask(r.date.day)})
        test  == SelectRows(df.rows, {r \in Range(df.rows) : test_mask(r.date.day)})
    IN  [enc     |-> enc,
         X_train |-> [i \in 1..Len(train) |-> FeatureRow(train[i], enc)],
         y_train |-> [i \in 1..Len(train) |-> train[i].sales],
         X_test  |-> [i \in 1..Len(test) |-> FeatureRow(test[i], enc)],
         y_test  |-> [i \in 1..Len(test) |-> test[i].sales]]

\* Lines 25-27 and 36: prepare_model_data reads all four columns; indexing
\* an absent one raises KeyError.
PrepareFails(df) == ~(AllCols \subseteq df.cols)

Labels(y) == {y[i][1] : i \in 1..Len(y)}
MinOf(S) == CHOOSE x \in S : \A z \in S : x <= z
MaxOf(S) == CHOOSE x \in S : \A z \in S : x >= z

NoModel == [fitted |-> FALSE, lo |-> 0, hi |-> 0, unit |-> 1]

\* RandomForestRegressor.fit raises ValueError on 0 samples.
FitFails(X, y) == X = <<>>

\* train_rf_model (lines 47-70).  The estimator is opaque; what is kept of
\* it is what bounds its predictions: every tree predicts a mean of training
\* labels, so a prediction lies between the least and the greatest label.
train_rf_model(X, y, unit) ==
    [fitted |-> TRUE, lo |-> MinOf(Labels(y)), hi |-> MaxOf(Labels(y)),
     unit |-> unit]

\* model.predict raises ValueError on 0 rows.
EvaluateFails(m, X, y) == X = <<>>

\* evaluate_model (lines 73-93): MAE and RMSE over the test rows; both lie
\* between 0 and the greatest distance of a test label from a prediction.
evaluate_model(m, X, y) ==
    LET far == MaxOf({m.hi - MinOf(Labels(y)), MaxOf(Labels(y)) - m.lo, 0})
    IN  [n |-> Len(X), mae_max |-> far, rmse_max |-> far, unit |-> m.unit]

\* nov_days (line 109).
nov_days == <<1, 2, 3, 4, 5>>

Prefix(s, n) == SubSeq(s, 1, IF Len(s) < n THEN Len(s) ELSE n)

\* Mutant of PredictFails: columns of unequal length are cut to the shortest
\* instead of being refused.
PredictFails_never(area, product) == FALSE

\* Lines 110-114: pd.DataFrame of three columns raises ValueError when their
\* lengths differ; the code columns are the lists cut to len(nov_days).
PredictFails(area, product) ==
    \/ Len(Prefix(area, Len(nov_days))) # Len(nov_days)
    \/ Len(Prefix(product, Len(nov_days))) # Len(nov_days)

FloorDiv(a, b) == a \div b
CeilDiv(a, b) == (a + b - 1) \div b

\* np.round(prediction, 2) in cents: between the label bounds rounded
\* outwards.
RoundedPrediction(m) ==
    [lo_cents |-> FloorDiv(m.lo * 100, m.unit),
     hi_cents |-> CeilDiv(m.hi * 100, m.unit)]

ShortestLen(area, product) ==
    MinOf({Len(nov_days), Len(area), Len(product)})

\* predict_nov_sales (lines 96-122): day i is paired with area_codes[i] and
\* product_codes[i].
predict_nov_sales(m, area, product) ==
    [i \in 1..ShortestLen(area, product) |->
        [day          |-> nov_days[i],
         region_code  |-> area[i],
         product_code |-> product[i],
         predicted    |-> RoundedPrediction(m)]]

\* main.py 47-50: the distinct codes of a column, sorted (np.unique); the
\* codes of n categories are 0 .. n-1.
UniqueCodes(u) == [i \in 1..Len(u) |-> i - 1]

\* Mutant of codes_frame: the codes are taken from the raw frame.
codes_frame_raw(raw, clean) == raw
\* The frame the drivers factorize for the forecast codes (main.py 47, 49;
\* app.py 100-101): df_clean.
codes_frame(raw, clean) == clean

\* app.py 100-101 call .unique() on the ndarray that pd.factorize returns,
\* which has no such method: AttributeError.  main.py uses np.unique.
CodesFail(e) == e = "analyze"

\* main.py 33-36: only the region and product columns are validated.
required_columns == {"region", "product_id"}

\* main.py 35: the message of the ValueError lists the required columns
\* that are absent.
MissingRequired(cols) == required_columns \ cols

\* The first column of `order` that the frame lacks: the key of the KeyError
\* raised by code that reads the columns in that order.
FirstAbsent(order, cols) ==
    LET i == CHOOSE j \in 1..Len(order) :
                /\ order[j] \notin cols
                /\ \A k \in 1..(j - 1) : order[k] \in cols
    IN  {order[i]}

\* data_analyzer.py 37-38: generate_sales_charts groups by date, takes the
\* amounts, then groups by region.
ChartColumns == <<"date", "sales", "region">>
ChartFails(df) == ~(Range(ChartColumns) \subseteq df.cols)

\* model_trainer.py 25-27, 36: the columns in the order prepare_model_data
\* reads them.
PrepareColumns == <<"date", "region", "product_id", "sales">>

\* An export cannot write its file (report directory not writable, file
\* open elsewhere): the environment decides.
ExportOutcomes == {"ok", "excel", "pdf"}

\* ------------------------------------------------------------ inputs
Row(d, p, s, r) == [date |-> d, product_id |-> p, sales |-> s, region |-> r]
Frame(rows) == [cols |-> AllCols, rows |-> rows, unit |-> 1]
mdY(day) == [fmt |-> "mdY", day |-> day]
BadDate == [fmt |-> "text", day |-> 0]
EmptyFrame == Frame(<<>>)

\* All sequences over S of length at most n.
SeqsUpTo(S, n) == UNION {[1..k -> S] : k \in 0..n}

RegionCycle == <<"HuaBei", "East", "HuaNan", "Overseas", "ZhongBu", "North">>
RegionAt(i) == RegionCycle[((i - 1) % Len(RegionCycle)) + 1]
ProductCycle == <<"001", "002", "003", "004", "005", "001">>
ProductAt(i) == ProductCycle[((i - 1) % Len(ProductCycle)) + 1]

\* Mixed family: every row has an arbitrary date validity, product and
\* amount (missing, negative or positive).
MixedCells ==
    [date : {mdY(20), BadDate}, product_id : {"P1", "P2"},
     sales : {NaN, <<-1>>, <<2>>, <<4>>}]
MixedInputs ==
    {Frame([i \in 1..Len(c) |->
              Row(c[i].date, c[i].product_id, c[i].sales, RegionAt(i))]) :
        c \in SeqsUpTo(MixedCells, MaxRows)}

\* Outlier family: one product, valid dates, only the amounts vary.
IqrAmounts == {NaN, <<-1>>, <<0>>, <<1>>, <<3>>}
IqrInputs ==
    {Frame([i \in 1..Len(a) |-> Row(mdY(i), "P1", a[i], "North")]) :
        a \in SeqsUpTo(IqrAmounts, MaxIqrRows)}

\* The datasets the specification and the module's own self-test name.
ExampleOrder ==
    Frame(<<Row(mdY(1), "P1", <<-500>>, "North"),
            Row(mdY(2), "P1", <<100>>, "North"),
            Row(mdY(3), "P1", <<200>>, "North"),
            Row(mdY(4), "P1", <<300>>, "North"),
            Row(mdY(5), "P1", <<100000>>, "North")>>)
ExampleImpute ==
    Frame(<<Row(mdY(1), "P1", <<100>>, "North"),
            Row(mdY(2), "P1", NaN, "North"),
            Row(mdY(3), "P1", <<300>>, "North")>>)
\* data_preprocessor.py lines 73-78.
ExampleSelfTest ==
    Frame(<<Row(mdY(25), "001", <<1000>>, "HuaBei"),
            Row(mdY(26), "001", NaN, "HuaBei"),
            Row(BadDate, "002", <<2000>>, "HuaDong"),
            Row(mdY(28), "002", <<-500>>, "HuaDong"),
            Row(mdY(29), "001", <<100000>>, "HuaNan")>>)
Examples == {ExampleOrder, ExampleImpute, ExampleSelfTest}

CleaningInputs == MixedInputs \cup IqrInputs \cup Examples

\* Split family: the day of every row varies around the split day; row i has
\* the i-th region and product of the cycles and the amount 10 + i.
SplitDays == {1, SplitDay, SplitDay + 1, 31}
SplitInputs ==
    {Frame([i \in 1..Len(d) |->
              Row(mdY(d[i]), ProductAt(i), <<10 + i>>, RegionAt(i))]) :
        d \in SeqsUpTo(SplitDays, MaxPipeRows)}

\* Category family: region and product of every row vary (two of the labels
\* normalize to the same region); the days alternate around the split day.
CategoryCells ==
    {<<"HuaBei", "P1">>, <<"North", "P2">>, <<"East", "P1">>, <<"East", "P2">>}
CategoryInputs ==
    {Frame([i \in 1..Len(c) |->
              Row(mdY(SplitDay + (i % 2)), c[i][2], <<10 + i>>, c[i][1])]) :
        c \in SeqsUpTo(CategoryCells, MaxPipeRows)}

\* End-to-end family: 31 rows, one per day of the month, one product, one
\* region; the amount of day m is missing, the amount of day n is negative;
\* the other amounts are all equal (flat) or grow with the day (ramp).
MonthDays == 1..31
E2EPositions == {1, 2, SplitDay, SplitDay + 1, 31}
E2EAmount(profile, day) == IF profile = "flat" THEN 100 ELSE 100 + 10 * day
E2EFrame(m, n, profile, neg) ==
    Frame([day \in MonthDays |->
             Row(mdY(day), "001",
                 IF day = m THEN NaN
                 ELSE IF day = n THEN <<neg>>
                 ELSE <<E2EAmount(profile, day)>>,
                 "HuaBei")])
E2EInputs ==
    {E2EFrame(q[1], q[2], q[3], q[4]) :
        q \in {t \in E2EPositions \X E2EPositions \X {"flat", "ramp"}
                        \X {-50, -100000} : t[1] # t[2]}}
IsE2E(df) == df \in E2EInputs

\* Column family: a frame with five regions, five products and rows on
\* both sides of the split day, with or without a missing amount, from
\* which any set of columns is left out.
ColumnDays == <<1, SplitDay, SplitDay + 1, 31, 2>>
ColumnBase(amount2) ==
    Frame([i \in 1..Len(ColumnDays) |->
             Row(mdY(ColumnDays[i]), ProductAt(i),
                 IF i = 2 THEN amount2 ELSE <<10 + i>>, RegionAt(i))])
WithoutColumns(df, absent) ==
    [df EXCEPT
       !.cols = @ \ absent,
       !.rows = [i \in 1..Len(df.rows) |->
          Row(IF "date" \in absent THEN BadDate ELSE df.rows[i].date,
              IF "product_id" \in absent THEN "" ELSE df.rows[i].product_id,
              IF "sales" \in absent THEN NaN ELSE df.rows[i].sales,
              IF "region" \in absent THEN "" ELSE df.rows[i].region)]]
ColumnInputs ==
    {WithoutColumns(ColumnBase(a), absent) :
        a \in {NaN, <<12>>}, absent \in SUBSET AllCols}

File(data) == [exists |-> TRUE, ext |-> ".csv", data |-> data]
NoFile == [exists |-> FALSE, ext |-> ".csv", data |-> EmptyFrame]
TextFile == [exists |-> TRUE, ext |-> ".txt", data |-> EmptyFrame]

PipelineFiles ==
    {File(d) : d \in SplitInputs \cup CategoryInputs \cup E2EInputs
                      \cup ColumnInputs}
        \cup {NoFile, TextFile}

\* The code lists handed to predict_nov_sales when it is called on its own.
CodeLists == SeqsUpTo({0, 1}, MaxCodes) \cup {<<0, 1, 2, 0, 1>>}

\* ------------------------------------------------------------ state
VARIABLES
    pc,         \* preprocess_data: the next statement group, or "cleaned"
    df_raw,     \* the loaded frame, the argument of preprocess_data
    df_clean,   \* preprocess_data's df_clean, then the drivers' df_clean
    Q1, Q3,     \* preprocess_data's Q1 and Q3 (four times their value)
    quant_in,   \* the column the quartiles were taken from
    entry,      \* the driver: "main", "analyze", or "selftest" (a module run alone)
    step,       \* the driver's next statement, "done" or "failed"
    file,       \* the file at DATA_PATH / current_data_path
    X_train, y_train, X_test, y_test,
    train_enc,  \* the encodings prepare_model_data assigned the codes with
    model,      \* rf_model
    metrics,    \* (mae, rmse)
    area_codes, product_codes,
    fc_enc,     \* the encodings the driver took the forecast codes from
    predict_df,
    artifacts,  \* the report files written so far
    err,        \* the exception the driver caught and the statement that raised it
    current_data_path,  \* app.py line 18, None is <<>>
    disk,       \* the files of the upload folder, by path
    written_by, \* the client whose request wrote a file last
    clock,      \* datetime.now(), in seconds
    uuid_count, \* the uuid4 values drawn so far
    client_path,\* per client, the 'path' of its last upload/save response
    req         \* per client, its analyze request: in flight or answered

cleanVars == <<pc, df_clean, Q1, Q3, quant_in>>
splitVars == <<X_train, y_train, X_test, y_test, train_enc>>
codeVars  == <<area_codes, product_codes, fc_enc>>
appVars   == <<current_data_path, disk, written_by, clock, uuid_count,
               client_path, req>>
vars == <<pc, df_raw, df_clean, Q1, Q3, quant_in, entry, step, file,
          X_train, y_train, X_test, y_test, train_enc, model, metrics,
          area_codes, product_codes, fc_enc, predict_df, artifacts, err,
          current_data_path, disk, written_by, clock, uuid_count,
          client_path, req>>

CurLocals == [df |-> df_clean, Q1 |-> Q1, Q3 |-> Q3, quant_in |-> quant_in]

StageAfter(name) ==
    LET i == CHOOSE j \in 1..Len(stage_order) : stage_order[j] = name
    IN  IF i = Len(stage_order) THEN "cleaned" ELSE stage_order[i + 1]

NoEncoding == [region |-> <<>>, product |-> <<>>]
NoError == [kind |-> "", at |-> "", names |-> {}]
None == <<>>
Clients == {1, 2}
\* app.py 109-112: total and mean of the amounts (the mean is the total
\* over the rows), the regions with the greatest total (idxmax takes the
\* first of them in label order), and the number of distinct dates.
RegionTotal(df, g) ==
    SumSeq(SalesOf(SelectRows(df.rows, {r \in Range(df.rows) : r.region = g})))
Aggregates(df) ==
    [total_sales |-> SumSeq(SalesOf(df.rows)),
     rows        |-> Len(df.rows),
     unit        |-> df.unit,
     top_region  |-> {g \in Range(RegionCol(df)) :
                        \A h \in Range(RegionCol(df)) :
                           RegionTotal(df, g) >= RegionTotal(df, h)},
     data_days   |-> Cardinality({r.date.day : r \in Range(df.rows)})]
NoAggregates ==
    [total_sales |-> 0, rows |-> 0, unit |-> 1, top_region |-> {},
     data_days |-> 0]

NoMetrics == [n |-> 0, mae_max |-> 0, rmse_max |-> 0, unit |-> 1]

\* The 'results' of an answer that carries none.
NoResults ==
    [data |-> NoAggregates, charts |-> "", prediction |-> <<>>,
     metrics |-> NoMetrics, reports |-> {}]
NoMessage == [error |-> "", names |-> {}]
NoResponse == [status |-> "", message |-> NoMessage, results |-> NoResults]

\* Mutant of error_response: the answer to a failure lists the artifacts
\* written before it as reports.
error_response_withArtifacts(e) ==
    [status  |-> "error",
     message |-> [error |-> e.kind, names |-> e.names],
     results |-> [NoResults EXCEPT !.charts = "chart", !.reports = {"chart"}]]

\* app.py 136-137 (main.py 69-75 prints the same): status 'error' and
\* str(e), the message of the exception raised, with the columns it names;
\* nothing else.
error_response(e) ==
    [status  |-> "error",
     message |-> [error |-> e.kind, names |-> e.names],
     results |-> NoResults]

\* app.py 114-135.
success_response(clean, pred, met) ==
    [status  |-> "success",
     message |-> NoMessage,
     results |-> [data |-> Aggregates(clean), charts |-> "chart",
                  prediction |-> pred, metrics |-> met,
                  reports |-> {"excel", "pdf", "charts_dir"}]]

\* app.py 78-79.
NoDataFile == [error |-> "no data file", names |-> {}]
IdleRequest == [at |-> "idle", path |-> None, df_raw |-> EmptyFrame,
                response |-> NoResponse]

\* The server has just started: nothing uploaded, no request in flight.
AppIdle ==
    /\ current_data_path = None
    /\ disk = <<>>
    /\ written_by = <<>>
    /\ clock = 0
    /\ uuid_count = 0
    /\ client_path = [c \in Clients |-> None]
    /\ req = [c \in Clients |-> IdleRequest]

\* Nothing of the drivers has run.
DriverIdle ==
    /\ X_train = <<>> /\ y_train = <<>> /\ X_test = <<>> /\ y_test = <<>>
    /\ train_enc = NoEncoding
    /\ model = NoModel
    /\ metrics = NoMetrics
    /\ area_codes = <<>> /\ product_codes = <<>>
    /\ fc_enc = NoEncoding
    /\ predict_df = <<>>
    /\ artifacts = {}
    /\ err = NoError

\* ------------------------------------------------ preprocess_data, by stage
\* Run the statement group `name` of preprocess_data.
RunStage(name) ==
    /\ step = "clean"
    /\ entry = "selftest"
    /\ LET c == Stage(name, CurLocals)
       IN  /\ df_clean' = c.df
           /\ Q1' = c.Q1
           /\ Q3' = c.Q3
           /\ quant_in' = c.quant_in
    /\ pc' = StageAfter(name)
    /\ UNCHANGED <<appVars, df_raw, entry, step, file, splitVars, model, metrics,
                   codeVars, predict_df, artifacts, err>>

\* Lines 32-35: Chinese region names to English.
ConvertRegions ==
    /\ pc = "normalize"
    /\ RunStage("normalize")

\* Lines 38-43: fill the missing amounts with the product mean.
FillMissingStep ==
    /\ pc = "impute"
    /\ RunStage("impute")

\* Lines 46-50: parse the dates and drop the rows whose date is invalid.
StandardizeDate ==
    /\ pc = "date"
    /\ RunStage("date")

\* Lines 54-55: drop the rows with a negative amount.
RemoveNegative ==
    /\ pc = "negative"
    /\ RunStage("negative")

\* Lines 57-59: Q1, Q3 and IQR of the amounts.
ComputeQuartiles ==
    /\ pc = "quartiles"
    /\ RunStage("quartiles")

\* Lines 60-66: drop the rows outside the IQR bounds.
RemoveExtremes ==
    /\ pc = "iqr"
    /\ RunStage("iqr")

\* preprocess_data called on its own (data_preprocessor.py line 83).
Init ==
    /\ df_raw \in CleaningInputs
    /\ df_clean = df_raw
    /\ pc = stage_order[1]
    /\ Q1 = NaN /\ Q3 = NaN /\ quant_in = <<>>
    /\ entry = "selftest"
    /\ step = "clean"
    /\ file = File(df_raw)
    /\ DriverIdle
    /\ AppIdle

Next ==
    \/ ConvertRegions
    \/ FillMissingStep
    \/ StandardizeDate
    \/ RemoveNegative
    \/ ComputeQuartiles
    \/ RemoveExtremes

Spec == Init /\ [][Next]_vars

\* ------------------------------------------------ the drivers, by statement
\* The except clause of the driver (main.py 69-75, app.py 136-137).
Fail(e) ==
    /\ step' = "failed"
    /\ err' = [kind |-> e, at |-> step, names |-> {}]

\* The same, for an exception whose message names columns.
FailNaming(e, names) ==
    /\ step' = "failed"
    /\ err' = [kind |-> e, at |-> step, names |-> names]

\* main.py 27, app.py 88.
LoadData ==
    /\ step = "load"
    /\ IF LoadFails(file)
       THEN /\ Fail(LoadError(file))
            /\ UNCHANGED df_raw
       ELSE /\ df_raw' = load_data(file)
            /\ step' = "clean"
            /\ err' = NoError
    /\ UNCHANGED <<appVars, cleanVars, entry, file, splitVars, model, metrics,
                   codeVars, predict_df, artifacts>>

\* main.py 30, app.py 89: the whole of preprocess_data.
Preprocess ==
    /\ step = "clean"
    /\ entry \in {"main", "analyze"}
    /\ IF PreprocessFails(df_raw)
       THEN /\ FailNaming("KeyError", {"product_id"})
            /\ UNCHANGED cleanVars
       ELSE /\ LET c == RunStages(stage_order, Locals(df_raw))
               IN  /\ df_clean' = c.df
                   /\ Q1' = c.Q1
                   /\ Q3' = c.Q3
                   /\ quant_in' = c.quant_in
            /\ pc' = "cleaned"
            /\ step' = IF entry = "main" THEN "validate" ELSE "chart"
            /\ err' = NoError
    /\ UNCHANGED <<appVars, df_raw, entry, file, splitVars, model, metrics, codeVars,
                   predict_df, artifacts>>

\* main.py 33-36.
ValidateColumns ==
    /\ step = "validate"
    /\ IF required_columns \subseteq df_clean.cols
       THEN step' = "chart" /\ err' = NoError
       ELSE FailNaming("ValueError", MissingRequired(df_clean.cols))
    /\ UNCHANGED <<appVars, cleanVars, df_raw, entry, file, splitVars, model, metrics,
                   codeVars, predict_df, artifacts>>

\* main.py 39, app.py 92: generate_sales_charts saves the chart file.
GenerateCharts ==
    /\ step = "chart"
    /\ IF ChartFails(df_clean)
       THEN /\ FailNaming("KeyError", FirstAbsent(ChartColumns, df_clean.cols))
            /\ UNCHANGED artifacts
       ELSE /\ artifacts' = artifacts \cup {"chart"}
            /\ step' = "prepare"
            /\ err' = NoError
    /\ UNCHANGED <<appVars, cleanVars, df_raw, entry, file, splitVars, model, metrics,
                   codeVars, predict_df>>

\* main.py 42, app.py 95.
PrepareModelData ==
    /\ step = "prepare"
    /\ IF PrepareFails(df_clean)
       THEN /\ FailNaming("KeyError",
                          FirstAbsent(PrepareColumns, df_clean.cols))
            /\ UNCHANGED splitVars
       ELSE /\ LET p == prepare_model_data(df_clean)
               IN  /\ X_train' = p.X_train
                   /\ y_train' = p.y_train
                   /\ X_test' = p.X_test
                   /\ y_test' = p.y_test
                   /\ train_enc' = p.enc
            /\ step' = "train"
            /\ err' = NoError
    /\ UNCHANGED <<appVars, cleanVars, df_raw, entry, file, model, metrics, codeVars,
                   predict_df, artifacts>>

\* main.py 43, app.py 96.
TrainModel ==
    /\ step = "train"
    /\ IF FitFails(X_train, y_train)
       THEN /\ Fail("ValueError")
            /\ UNCHANGED model
       ELSE /\ model' = train_rf_model(X_train, y_train, df_clean.unit)
            /\ step' = "evaluate"
            /\ err' = NoError
    /\ UNCHANGED <<appVars, cleanVars, df_raw, entry, file, splitVars, metrics,
                   codeVars, predict_df, artifacts>>

\* main.py 44, app.py 97.
EvaluateModel ==
    /\ step = "evaluate"
    /\ IF EvaluateFails(model, X_test, y_test)
       THEN /\ Fail("ValueError")
            /\ UNCHANGED metrics
       ELSE /\ metrics' = evaluate_model(model, X_test, y_test)
            /\ step' = "codes"
            /\ err' = NoError
    /\ UNCHANGED <<appVars, cleanVars, df_raw, entry, file, splitVars, model,
                   codeVars, predict_df, artifacts>>

\* main.py 47-50, app.py 100-101.
ForecastCodes ==
    /\ step = "codes"
    /\ IF CodesFail(entry)
       THEN /\ Fail("AttributeError")
            /\ UNCHANGED codeVars
       ELSE /\ fc_enc' = factorize(codes_frame(df_raw, df_clean))
            /\ area_codes' = UniqueCodes(fc_enc'.region)
            /\ product_codes' = UniqueCodes(fc_enc'.product)
            /\ step' = "predict"
            /\ err' = NoError
    /\ UNCHANGED <<appVars, cleanVars, df_raw, entry, file, splitVars, model, metrics,
                   predict_df, artifacts>>

\* main.py 52, app.py 102; model_trainer.py 141 when the module runs alone.
PredictNovSales ==
    /\ step = "predict"
    /\ IF PredictFails(area_codes, product_codes)
       THEN /\ Fail("ValueError")
            /\ UNCHANGED predict_df
       ELSE /\ predict_df' = predict_nov_sales(model, area_codes, product_codes)
            /\ step' = "excel"
            /\ err' = NoError
    /\ UNCHANGED <<appVars, cleanVars, df_raw, entry, file, splitVars, model, metrics,
                   codeVars, artifacts>>

\* main.py 56, app.py 105.
ExportExcel ==
    /\ step = "excel"
    /\ entry \in {"main", "analyze"}
    /\ \E io \in ExportOutcomes :
          IF io = "excel"
          THEN /\ Fail("OSError")
               /\ UNCHANGED artifacts
          ELSE /\ artifacts' = artifacts \cup {"excel"}
               /\ step' = "pdf"
               /\ err' = NoError
    /\ UNCHANGED <<appVars, cleanVars, df_raw, entry, file, splitVars, model, metrics,
                   codeVars, predict_df>>

\* main.py 57-67, app.py 106-135.
ExportPdf ==
    /\ step = "pdf"
    /\ \E io \in ExportOutcomes :
          IF io = "pdf"
          THEN /\ Fail("OSError")
               /\ UNCHANGED artifacts
          ELSE /\ artifacts' = artifacts \cup {"pdf"}
               /\ step' = "done"
               /\ err' = NoError
    /\ UNCHANGED <<appVars, cleanVars, df_raw, entry, file, splitVars, model, metrics,
                   codeVars, predict_df>>

\* The statements of the try body in program order (main.py 27-57,
\* app.py 88-106; only main validates the columns).
step_order ==
    <<"load", "clean", "validate", "chart", "prepare", "train", "evaluate",
      "codes", "predict", "excel", "pdf">>

\* What the driver reports at its end: the answer of analyze (app.py
\* 114-137), which main prints instead (main.py 59-75).
Response ==
    IF step = "failed" THEN error_response(err)
    ELSE IF step = "done"
         THEN success_response(df_clean, predict_df, metrics)
         ELSE NoResponse

\* One run of main() or of the body of analyze() on a file.
InitPipeline ==
    /\ file \in PipelineFiles
    /\ entry \in {"main", "analyze"}
    /\ step = "load"
    /\ df_raw = EmptyFrame
    /\ df_clean = EmptyFrame
    /\ pc = stage_order[1]
    /\ Q1 = NaN /\ Q3 = NaN /\ quant_in = <<>>
    /\ DriverIdle
    /\ AppIdle

NextPipeline ==
    \/ LoadData
    \/ Preprocess
    \/ ValidateColumns
    \/ GenerateCharts
    \/ PrepareModelData
    \/ TrainModel
    \/ EvaluateModel
    \/ ForecastCodes
    \/ PredictNovSales
    \/ ExportExcel
    \/ ExportPdf

SpecPipeline == InitPipeline /\ [][NextPipeline]_vars

\* ------------------------------------------------ predict_nov_sales alone
FittedModels ==
    {[fitted |-> TRUE, lo |-> 8000, hi |-> 25000, unit |-> 1],
     [fitted |-> TRUE, lo |-> 1, hi |-> 2, unit |-> 3]}

\* predict_nov_sales called with a fitted model and two code lists
\* (model_trainer.py 137-141).
InitPredict ==
    /\ entry = "selftest"
    /\ step = "predict"
    /\ file = NoFile
    /\ df_raw = EmptyFrame
    /\ df_clean = EmptyFrame
    /\ pc = "cleaned"
    /\ Q1 = NaN /\ Q3 = NaN /\ quant_in = <<>>
    /\ X_train = <<>> /\ y_train = <<>> /\ X_test = <<>> /\ y_test = <<>>
    /\ train_enc = NoEncoding
    /\ model \in FittedModels
    /\ metrics = NoMetrics
    /\ area_codes \in CodeLists
    /\ product_codes \in CodeLists
    /\ fc_enc = NoEncoding
    /\ predict_df = <<>>
    /\ artifacts = {}
    /\ err = NoError
    /\ AppIdle

NextPredict == PredictNovSales

SpecPredict == InitPredict /\ [][NextPredict]_vars

\* ------------------------------------------------ the HTTP application
driverVars == <<pc, df_raw, df_clean, Q1, Q3, quant_in, entry, step, file,
                splitVars, model, metrics, codeVars, predict_df, artifacts,
                err>>

\* The body of a driver after load_data, as one computation: the statements
\* of main.py 30-57 / app.py 89-135 in order, stopping at the first that
\* raises.  The result is what the except clause or the last statement sees.
driver_body(e, raw, io) ==
    LET clean == preprocess_data(raw)
        p     == prepare_model_data(clean)
        m     == train_rf_model(p.X_train, p.y_train, clean.unit)
        enc   == factorize(codes_frame(raw, clean))
        area  == UniqueCodes(enc.region)
        prod  == UniqueCodes(enc.product)
        raised(kind, at, names, made, df) ==
            [status |-> "error",
             err |-> [kind |-> kind, at |-> at, names |-> names],
             artifacts |-> made, df_clean |-> df, predict_df |-> <<>>,
             metrics |-> NoMetrics]
    IN  IF PreprocessFails(raw)
            THEN raised("KeyError", "clean", {"product_id"}, {}, EmptyFrame)
        ELSE IF e = "main" /\ ~(required_columns \subseteq clean.cols)
            THEN raised("ValueError", "validate",
                        MissingRequired(clean.cols), {}, clean)
        ELSE IF ChartFails(clean)
            THEN raised("KeyError", "chart",
                        FirstAbsent(ChartColumns, clean.cols), {}, clean)
        ELSE IF PrepareFails(clean)
            THEN raised("KeyError", "prepare",
                        FirstAbsent(PrepareColumns, clean.cols), {"chart"},
                        clean)
        ELSE IF FitFails(p.X_train, p.y_train)
            THEN raised("ValueError", "train", {}, {"chart"}, clean)
        ELSE IF EvaluateFails(m, p.X_test, p.y_test)
            THEN raised("ValueError", "evaluate", {}, {"chart"}, clean)
        ELSE IF CodesFail(e)
            THEN raised("AttributeError", "codes", {}, {"chart"}, clean)
        ELSE IF PredictFails(area, prod)
            THEN raised("ValueError", "predict", {}, {"chart"}, clean)
        ELSE IF io = "excel"
            THEN raised("OSError", "excel", {}, {"chart"}, clean)
        ELSE IF io = "pdf"
            THEN raised("OSError", "pdf", {}, {"chart", "excel"}, clean)
        ELSE [status |-> "success", err |-> NoError,
              artifacts |-> {"chart", "excel", "pdf"}, df_clean |-> clean,
              predict_df |-> predict_nov_sales(m, area, prod),
              metrics |-> evaluate_model(m, p.X_test, p.y_test)]

\* app.py 114-137: the answer of analyze to the outcome of its try body.
respond(r) ==
    IF r.status = "error" THEN error_response(r.err)
    ELSE success_response(r.df_clean, r.predict_df, r.metrics)

\* The datasets a client uploads or types in.
WellFormed ==
    Frame([i \in 1..6 |->
             Row(mdY(SplitDay - 3 + i), ProductAt(i), <<100 + i>>, RegionAt(i))])
AppDatasets == {WellFormed, ExampleSelfTest}

UploadPath(k) == <<"uploads", k>>
CustomPath(t) == <<"custom_data", t>>

\* app.py 26-46: the file is saved under a fresh uuid4 name and the global is
\* set to its path.  (A request without a file or with an empty file name
\* is answered with an error and changes nothing.)
upload_file(c, d) ==
    /\ uuid_count < MaxUploads
    /\ LET filepath == UploadPath(uuid_count + 1)
       IN  /\ disk' = (filepath :> File(d)) @@ disk
           /\ written_by' = (filepath :> c) @@ written_by
           /\ current_data_path' = filepath
           /\ client_path' = [client_path EXCEPT ![c] = filepath]
    /\ uuid_count' = uuid_count + 1
    /\ UNCHANGED <<driverVars, clock, req>>

\* app.py 49-70: the rows are written to custom_data_<now, to the second>.xlsx
\* and the global is set to its path.  (A request without rows is answered
\* with an error and changes nothing.)
save_data(c, d) ==
    /\ LET filepath == CustomPath(clock)
       IN  /\ disk' = (filepath :> [File(d) EXCEPT !.ext = ".xlsx"]) @@ disk
           /\ written_by' = (filepath :> c) @@ written_by
           /\ current_data_path' = filepath
           /\ client_path' = [client_path EXCEPT ![c] = filepath]
    /\ UNCHANGED <<driverVars, clock, uuid_count, req>>

\* A second passes.
Tick ==
    /\ clock < MaxClock
    /\ clock' = clock + 1
    /\ UNCHANGED <<driverVars, current_data_path, disk, written_by,
                   uuid_count, client_path, req>>

\* app.py 75-84: analyze reads the global; without a path it answers with an
\* error at once.
AnalyzeEnter(c) ==
    /\ req[c].at \in {"idle", "answered"}
    /\ req' = [req EXCEPT ![c] =
                 IF current_data_path = None
                 THEN [IdleRequest EXCEPT !.at = "refused"]
                 ELSE [IdleRequest EXCEPT !.at = "entered"]]
    /\ UNCHANGED <<driverVars, current_data_path, disk, written_by, clock,
                   uuid_count, client_path>>

\* app.py 88: load_data(current_data_path) reads the global again.  The
\* files of the upload folder exist and are .csv or .xlsx.
AnalyzeLoad(c) ==
    /\ req[c].at = "entered"
    /\ req' = [req EXCEPT ![c] =
                 [at       |-> "loaded",
                  path     |-> current_data_path,
                  df_raw   |-> load_data(disk[current_data_path]),
                  response |-> NoResponse]]
    /\ UNCHANGED <<driverVars, current_data_path, disk, written_by, clock,
                   uuid_count, client_path>>

\* app.py 89-137: the rest of the body on the loaded frame, and the answer.
AnalyzeRespond(c) ==
    /\ req[c].at \in {"loaded", "refused"}
    /\ \E io \in ExportOutcomes :
          req' = [req EXCEPT ![c] =
            [IdleRequest EXCEPT
               !.at = "answered",
               !.response =
                  IF req[c].at = "refused"
                  THEN [NoResponse EXCEPT !.status = "error",
                                          !.message = NoDataFile]
                  ELSE respond(driver_body("analyze", req[c].df_raw, io))]]
    /\ UNCHANGED <<driverVars, current_data_path, disk, written_by, clock,
                   uuid_count, client_path>>

InitApp ==
    /\ AppIdle
    /\ entry = "analyze"
    /\ step = "load"
    /\ file = NoFile
    /\ df_raw = EmptyFrame
    /\ df_clean = EmptyFrame
    /\ pc = stage_order[1]
    /\ Q1 = NaN /\ Q3 = NaN /\ quant_in = <<>>
    /\ DriverIdle

NextApp ==
    \/ \E c \in Clients, d \in AppDatasets : upload_file(c, d)
    \/ \E c \in Clients, d \in AppDatasets : save_data(c, d)
    \/ Tick
    \/ \E c \in Clients : AnalyzeEnter(c)
    \/ \E c \in Clients : AnalyzeLoad(c)
    \/ \E c \in Clients : AnalyzeRespond(c)

SpecApp == InitApp /\ [][NextApp]_vars

\* ------------------------------------------------------------ claims
StageIndex(name) == CHOOSE j \in 1..Len(stage_order) : stage_order[j] = name

\* The statement group `name` has run.
StageDone(name) == pc = "cleaned" \/ StageIndex(pc) > StageIndex(name)

\* The statement group `name` is the last one that ran.
JustAfter(name) == pc = StageAfter(name)

RECURSIVE IsSubseq(_, _)
\* a is b with some elements left out.
IsSubseq(a, b) ==
    IF a = <<>> THEN TRUE
    ELSE IF b = <<>> THEN FALSE
    ELSE IF Head(a) = Head(b) THEN IsSubseq(Tail(a), Tail(b))
    ELSE IsSubseq(a, Tail(b))

\* Some product of the input has rows, and every one of them arrived with a
\* missing amount (and at least one of them has a valid date).
SomeProductAllMissing ==
    \E i \in 1..Len(df_raw.rows) :
        /\ df_raw.rows[i].date.fmt = "mdY"
        /\ \A j \in 1..Len(df_raw.rows) :
              df_raw.rows[j].product_id = df_raw.rows[i].product_id
                  => isnull(df_raw.rows[j].sales)

\* C1: every row returned by preprocess_data (input with all four columns)
\* has a present sales amount, a parsed date, an amount >= 0 and an amount
\* inside [Q1 - 1.5*IQR, Q3 + 1.5*IQR] for the quartiles the outlier stage
\* computed, also when a product arrived with every amount missing.
C1_CleanInvariant ==
    (pc = "cleaned" /\ df_raw.cols = AllCols) =>
        \A i \in 1..Len(df_clean.rows) :
            LET r == df_clean.rows[i]
            IN  /\ ~isnull(r.sales)
                /\ r.date.fmt = "ts"
                /\ r.sales[1] >= 0
                /\ ~isnull(Q1) /\ ~isnull(Q3)
                /\ 8 * r.sales[1] >= LowerBound8(Q1[1], Q3[1])
                /\ 8 * r.sales[1] <= UpperBound8(Q1[1], Q3[1])

\* C1 witness: a cleaned, non-empty output of an input in which one product
\* had only missing amounts, from which rows were dropped.
C1_Witness ==
    /\ pc = "cleaned"
    /\ SomeProductAllMissing
    /\ df_clean.rows # <<>>
    /\ Len(df_clean.rows) < Len(df_raw.rows)

\* The dataset as it stands when the outlier stage starts.
BeforeOutlierStage ==
    RunStages(<<"normalize", "impute", "date">>, Locals(df_raw)).df

\* C2: in the outlier stage the rows with amount < 0 are removed first and
\* Q1, Q3 are computed only over the rows that remain: the quartile input is
\* the non-negative amounts of the dataset the stage started from, never a
\* negative one; for [-500, 100, 200, 300, 100000] it is
\* [100, 200, 300, 100000].
C2_QuartilesAfterNegatives ==
    StageDone("quartiles") =>
        /\ \A i \in 1..Len(quant_in) : quant_in[i] >= 0
        /\ quant_in = SalesOf(DropNegative(BeforeOutlierStage).rows)
        /\ Q1 = quantile4(quant_in, 1)
        /\ Q3 = quantile4(quant_in, 3)
        /\ (df_raw = ExampleOrder => quant_in = <<100, 200, 300, 100000>>)

\* C2 witness: the quartiles were computed for an input that had a negative
\* amount in a row with a valid date, and rows remained.
C2_Witness ==
    /\ StageDone("quartiles")
    /\ quant_in # <<>>
    /\ \E i \in 1..Len(BeforeOutlierStage.rows) :
          /\ ~isnull(BeforeOutlierStage.rows[i].sales)
          /\ BeforeOutlierStage.rows[i].sales[1] < 0

\* The rows other than i that share row i's product and arrived with an
\* amount.
OtherPresent(i) ==
    {j \in 1..Len(df_raw.rows) :
        /\ j # i
        /\ df_raw.rows[j].product_id = df_raw.rows[i].product_id
        /\ ~isnull(df_raw.rows[j].sales)}

RECURSIVE SumRaw(_)
SumRaw(J) ==
    IF J = {} THEN 0
    ELSE LET j == CHOOSE k \in J : TRUE
         IN  df_raw.rows[j].sales[1] + SumRaw(J \ {j})

\* C3: right after the imputation stage, every row that arrived without an
\* amount holds the arithmetic mean of the amounts of the other rows of its
\* product as they arrived (mean * count = sum), every row that arrived with
\* an amount still holds it, and [100, missing, 300] fills to 200.
C3_ImputeGroupMean ==
    (JustAfter("impute") /\ df_raw.cols = AllCols) =>
        /\ Len(df_clean.rows) = Len(df_raw.rows)
        /\ \A i \in 1..Len(df_raw.rows) :
              IF isnull(df_raw.rows[i].sales)
              THEN OtherPresent(i) # {} =>
                     /\ ~isnull(df_clean.rows[i].sales)
                     /\ df_clean.rows[i].sales[1] * Cardinality(OtherPresent(i))
                            * df_raw.unit
                          = SumRaw(OtherPresent(i)) * df_clean.unit
              ELSE /\ ~isnull(df_clean.rows[i].sales)
                   /\ df_clean.rows[i].sales[1] * df_raw.unit
                          = df_raw.rows[i].sales[1] * df_clean.unit
        /\ (df_raw = ExampleImpute =>
                df_clean.rows[2].sales[1] = 200 * df_clean.unit)

\* C3 witness: two rows of one product arrived without an amount and were
\* filled from two or more present amounts that differ.
C3_Witness ==
    /\ JustAfter("impute")
    /\ \E i, j \in 1..Len(df_raw.rows) :
          /\ i # j
          /\ isnull(df_raw.rows[i].sales) /\ isnull(df_raw.rows[j].sales)
          /\ df_raw.rows[i].product_id = df_raw.rows[j].product_id
          /\ ~isnull(df_clean.rows[i].sales)
          /\ \E k, l \in OtherPresent(i) :
                df_raw.rows[k].sales # df_raw.rows[l].sales

\* Every row of df lies inside the IQR bounds recomputed from df itself.
WithinOwnBounds(df) ==
    \A i \in 1..Len(df.rows) :
        InBounds(df.rows[i].sales,
                 quantile4(SalesOf(df.rows), 1), quantile4(SalesOf(df.rows), 3))

\* C4 as stated: cleaning the cleaned dataset again is a no-op.
C4_Idempotent ==
    pc = "cleaned" => preprocess_data(df_clean) = df_clean

\* C4 as amended: a second run changes no value and adds no row (its rows
\* are the first run's with some left out), and it is a no-op exactly when
\* every row of the first run's output lies inside the IQR bounds recomputed
\* from that output.
C4_SecondRunOnlyDrops ==
    (pc = "cleaned" /\ df_raw.cols = AllCols) =>
        LET again == preprocess_data(df_clean)
        IN  /\ again.cols = df_clean.cols
            /\ again.unit = df_clean.unit
            /\ IsSubseq(again.rows, df_clean.rows)
            /\ (again = df_clean <=> WithinOwnBounds(df_clean))

\* C4 witness: a first run that dropped rows and filled an amount, and whose
\* output the second run leaves as it is.
C4_Witness ==
    /\ pc = "cleaned"
    /\ Len(df_clean.rows) >= 3
    /\ Len(df_clean.rows) < Len(df_raw.rows)
    /\ HasMissing(df_raw)
    /\ preprocess_data(df_clean) = df_clean

\* prepare_model_data was called, and has returned or raised.
BuilderCalled == "chart" \in artifacts /\ step # "prepare"

\* prepare_model_data has returned.
Prepared == "chart" \in artifacts /\ step # "prepare" /\ err.at # "prepare"

\* The rows of the cleaned frame on each side of day 20, in their order.
RowsUpTo20 ==
    SelectRows(df_clean.rows, {r \in Range(df_clean.rows) : r.date.day <= 20})
RowsAfter20 ==
    SelectRows(df_clean.rows, {r \in Range(df_clean.rows) : r.date.day > 20})

\* The driver took the forecast codes (and handed them to predict_nov_sales).
CodesTaken ==
    \/ step \in {"predict", "excel", "pdf", "done"}
    \/ err.at \in {"predict", "excel", "pdf"}

\* C5: every code handed to predict_nov_sales denotes, in the assignment the
\* driver took it from, the region / product that it denoted when
\* prepare_model_data encoded the features, and every feature row's code
\* decodes to its record's region / product under the driver's assignment.
C5_SameEncoding ==
    CodesTaken =>
        /\ \A i \in 1..Len(area_codes) :
              /\ area_codes[i] + 1 \in 1..Len(train_enc.region)
              /\ area_codes[i] + 1 \in 1..Len(fc_enc.region)
              /\ fc_enc.region[area_codes[i] + 1]
                    = train_enc.region[area_codes[i] + 1]
        /\ \A i \in 1..Len(product_codes) :
              /\ product_codes[i] + 1 \in 1..Len(train_enc.product)
              /\ product_codes[i] + 1 \in 1..Len(fc_enc.product)
              /\ fc_enc.product[product_codes[i] + 1]
                    = train_enc.product[product_codes[i] + 1]
        /\ Len(X_train) = Len(RowsUpTo20)
        /\ \A i \in 1..Len(X_train) :
              /\ X_train[i].region_code + 1 \in 1..Len(fc_enc.region)
              /\ fc_enc.region[X_train[i].region_code + 1] = RowsUpTo20[i].region
              /\ X_train[i].product_code + 1 \in 1..Len(fc_enc.product)
              /\ fc_enc.product[X_train[i].product_code + 1]
                    = RowsUpTo20[i].product_id

\* C5 witness: the CLI driver handed predict_nov_sales two or more region
\* codes, and the raw frame named one of the regions differently.
C5_Witness ==
    /\ entry = "main"
    /\ CodesTaken
    /\ Len(area_codes) >= 2
    /\ Len(product_codes) >= 2
    /\ \E i \in 1..Len(df_raw.rows) : df_raw.rows[i].region = "HuaBei"

\* C6: prepare_model_data partitions the cleaned rows by day of month: the
\* training subset is the rows with day <= 20, the evaluation subset the
\* rows with day > 20, every row is in exactly one of them, and each row's
\* label stays with its features.
C6_SplitPartition ==
    Prepared =>
        /\ Len(X_train) + Len(X_test) = Len(df_clean.rows)
        /\ Len(X_train) = Len(RowsUpTo20) /\ Len(y_train) = Len(X_train)
        /\ Len(X_test) = Len(RowsAfter20) /\ Len(y_test) = Len(X_test)
        /\ \A i \in 1..Len(X_train) :
              /\ X_train[i].day = RowsUpTo20[i].date.day
              /\ X_train[i].day <= 20
              /\ y_train[i] = RowsUpTo20[i].sales
        /\ \A i \in 1..Len(X_test) :
              /\ X_test[i].day = RowsAfter20[i].date.day
              /\ X_test[i].day > 20
              /\ y_test[i] = RowsAfter20[i].sales

\* C6 witness: a row of day 20 was put in the training subset and a row of
\* day 21 in the evaluation subset.
C6_Witness ==
    /\ Prepared
    /\ \E i \in 1..Len(X_train) : X_train[i].day = 20
    /\ \E i \in 1..Len(X_test) : X_test[i].day = 21

\* C7 as stated: when the training or the evaluation subset is empty the
\* builder fails (the request has failed in prepare_model_data), and no model
\* is trained or evaluated and no forecast is produced.
C7_EmptySubsetFailsInBuilder ==
    (BuilderCalled /\ (RowsUpTo20 = <<>> \/ RowsAfter20 = <<>>)) =>
        /\ step = "failed"
        /\ err.at = "prepare"
        /\ ~model.fitted
        /\ metrics = NoMetrics
        /\ predict_df = <<>>

E2EEnded ==
    /\ entry = "main"
    /\ step \in {"done", "failed"}
    /\ file.exists /\ IsE2E(file.data)

C10_RequestScopedPath ==
    \A c \in Clients :
        (req[c].at = "loaded" /\ client_path[c] # None) =>
            /\ req[c].path = client_path[c]
            /\ written_by[req[c].path] = c

StepIndex(name) == CHOOSE j \in 1..Len(step_order) : step_order[j] = name

\* The statement `name` is the one that raised or comes after it.
NotCompleted(name) == StepIndex(err.at) <= StepIndex(name)

\* C11: when a statement of the driver raises, no later statement has run
\* (what each of them would have produced is still absent), the run is
\* reported as failed with the message of the exception, and the answer
\* names no chart, Excel or PDF file, whatever was written before.
C11_FailFast ==
    step = "failed" =>
        /\ err.kind # "" /\ err.at \in Range(step_order)
        /\ NotCompleted("load") => df_raw = EmptyFrame
        /\ NotCompleted("clean") => pc # "cleaned" /\ df_clean = EmptyFrame
        /\ NotCompleted("chart") => "chart" \notin artifacts
        /\ NotCompleted("prepare") =>
              /\ X_train = <<>> /\ y_train = <<>>
              /\ X_test = <<>> /\ y_test = <<>>
              /\ train_enc = NoEncoding
        /\ NotCompleted("train") => ~model.fitted
        /\ NotCompleted("evaluate") => metrics = NoMetrics
        /\ NotCompleted("codes") =>
              fc_enc = NoEncoding /\ area_codes = <<>> /\ product_codes = <<>>
        /\ NotCompleted("predict") => predict_df = <<>>
        /\ NotCompleted("excel") => "excel" \notin artifacts
        /\ NotCompleted("pdf") => "pdf" \notin artifacts
        /\ Response.status = "error"
        /\ Response.message.error = err.kind
        /\ Response.results.charts = ""
        /\ Response.results.reports = {}
        /\ Response.results = NoResults

\* C11 witness: an analyze request failed after its chart file was written.
C11_Witness ==
    /\ entry = "analyze"
    /\ step = "failed"
    /\ "chart" \in artifacts
    /\ err.at \in {"prepare", "train", "evaluate", "codes"}
    /\ Response.status = "error"

\* The columns the loaded dataset lacks; cleaning adds and removes none.
AbsentColumns == AllCols \ df_raw.cols

\* The driver loaded its file and has ended.
LoadedAndEnded ==
    step \in {"done", "failed"} /\ err.at # "load" /\ entry \in {"main", "analyze"}

\* C12 as stated: a dataset that lacks any of the four columns makes the run
\* fail in a column check that comes after cleaning and names every absent
\* column, before a chart is written, the data is split or a report is
\* exported; for both drivers.
C12_MissingColumnsReported ==
    (LoadedAndEnded /\ AbsentColumns # {}) =>
        /\ step = "failed"
        /\ err.at = "validate"
        /\ err.names = AbsentColumns
        /\ artifacts = {}
        /\ X_train = <<>> /\ X_test = <<>>

\* The dataset has the four columns and, once cleaned, rows on both sides of
\* day 20, at least 5 regions and at least 5 products.
WellFormedDataset(df) ==
    /\ df.cols = AllCols
    /\ LET clean == preprocess_data(df)
       IN  /\ \E r \in Range(clean.rows) : train_mask(r.date.day)
           /\ \E r \in Range(clean.rows) : test_mask(r.date.day)
           /\ Len(factorize(clean).region) >= 5
           /\ Len(factorize(clean).product) >= 5

\* C13 as stated: the answer to an analyze request that loaded a well-formed
\* dataset has status success and carries the statistics, the forecast rows,
\* the metrics and the chart, Excel and PDF paths.
C13_AnalyzeSucceeds ==
    [][\A c \in Clients :
          (/\ req[c].at = "loaded"
           /\ WellFormedDataset(req[c].df_raw)
           /\ req'[c].at = "answered") =>
              /\ req'[c].response.status = "success"
              /\ req'[c].response.results.data.rows > 0
              /\ req'[c].response.results.data.top_region # {}
              /\ Len(req'[c].response.results.prediction) = Len(nov_days)
              /\ req'[c].response.results.metrics.n > 0
              /\ req'[c].response.results.charts = "chart"
              /\ {"excel", "pdf"} \subseteq req'[c].response.results.reports]_vars

\* The rows that arrived with a date that parses.
ValidDateRows ==
    {i \in 1..Len(df_raw.rows) : to_datetime(df_raw.rows[i].date).fmt # "NaT"}

\* C14: the stages run in the order normalization, imputation, date filter,
\* outlier filter.  After normalization nothing has been filled or dropped
\* yet; after imputation the regions are already normalized, no row has been
\* dropped, no date parsed, and every fill is the mean over all the rows of
\* its product that arrived with an amount, those with an unparsable date
\* included; from the date filter on no row with an unparsable date is left,
\* so that none of them is among the amounts the quartiles are taken from
\* nor in the output.
C14_StageOrder ==
    df_raw.cols = AllCols =>
        /\ JustAfter("normalize") =>
              /\ Len(df_clean.rows) = Len(df_raw.rows)
              /\ \A i \in 1..Len(df_raw.rows) :
                    /\ df_clean.rows[i].sales = df_raw.rows[i].sales
                    /\ df_clean.rows[i].date = df_raw.rows[i].date
                    /\ df_clean.rows[i].region
                          = region_mapping(df_raw.rows[i].region)
        /\ JustAfter("impute") =>
              /\ Len(df_clean.rows) = Len(df_raw.rows)
              /\ \A i \in 1..Len(df_raw.rows) :
                    /\ df_clean.rows[i].date = df_raw.rows[i].date
                    /\ df_clean.rows[i].region
                          = region_mapping(df_raw.rows[i].region)
                    /\ (isnull(df_raw.rows[i].sales) /\ OtherPresent(i) # {}) =>
                          /\ ~isnull(df_clean.rows[i].sales)
                          /\ df_clean.rows[i].sales[1]
                                * Cardinality(OtherPresent(i)) * df_raw.unit
                               = SumRaw(OtherPresent(i)) * df_clean.unit
        /\ StageDone("date") =>
              /\ \A r \in Range(df_clean.rows) : r.date.fmt = "ts"
              /\ Len(df_clean.rows) <= Cardinality(ValidDateRows)
        /\ StageDone("quartiles") =>
              /\ Len(quant_in) <= Cardinality(ValidDateRows)
              /\ JustAfter("quartiles") => quant_in = SalesOf(df_clean.rows)

\* C14 witness: a row with an unparsable date and an amount shared its
\* product with a row that arrived without an amount and with a row whose
\* amount differs; the output holds the filled row, whose amount is the
\* mean that counts the dropped row, and not the dropped row.
C14_Witness ==
    /\ pc = "cleaned"
    /\ \E i, j, k \in 1..Len(df_raw.rows) :
          /\ isnull(df_raw.rows[i].sales) /\ i \in ValidDateRows
          /\ j \in OtherPresent(i) /\ j \notin ValidDateRows
          /\ k \in OtherPresent(i) /\ k \in ValidDateRows
          /\ df_raw.rows[j].sales # df_raw.rows[k].sales
          /\ \E r \in Range(df_clean.rows) :
                r.sales[1] * Cardinality(OtherPresent(i)) * df_raw.unit
                    = SumRaw(OtherPresent(i)) * df_clean.unit
          /\ Len(df_clean.rows) < Len(df_raw.rows)

=============================================================================
